---- MODULE Spec2Model ----
(***************************************************************************)
(* SimpleExchange (src/dex/simple-exchange.ts): the approval cache, the    *)
(* allowance oracle and the composition of the simple-swap call sequence.  *)
(*                                                                         *)
(* Strings (addresses, amounts, cache keys) are sequences of one-character *)
(* strings, so that toLowerCase, BigInt parsing, toString and template     *)
(* concatenation are computed character by character.                      *)
(***************************************************************************)
EXTENDS Integers, Sequences, FiniteSets, TLC

\* ------------------------------------------------------------------------
\* Bounds of the model
\* ------------------------------------------------------------------------

\* the longest list of caller-supplied pre-calls a request carries
MaxPreCalls == 2

\* the system clock is followed up to this many milliseconds
MaxClockMs == 3000

\* ------------------------------------------------------------------------
\* JavaScript strings and numbers
\* ------------------------------------------------------------------------

\* String.prototype.toLowerCase on one character
LowerChar(ch) ==
  CASE ch = "A" -> "a" [] ch = "B" -> "b" [] ch = "C" -> "c"
    [] ch = "D" -> "d" [] ch = "E" -> "e" [] ch = "F" -> "f"
    [] ch = "U" -> "u" [] ch = "X" -> "x"
    [] OTHER -> ch

toLowerCase(s) == [i \in 1..Len(s) |-> LowerChar(s[i])]

Digits == <<"0", "1", "2", "3", "4", "5", "6", "7", "8", "9">>

IsDigit(ch) == \E d \in 1..10 : Digits[d] = ch

\* the value of a decimal digit (0 for any other character, which BigInt never
\* reaches: it throws first)
DigitValue(ch) == IF IsDigit(ch) THEN (CHOOSE d \in 1..10 : Digits[d] = ch) - 1 ELSE 0

\* BigInt(s) throws a SyntaxError unless s is a (possibly empty) string of
\* decimal digits (signs, radix prefixes and blanks are not among the inputs)
BigIntThrows(s) == \E i \in 1..Len(s) : ~IsDigit(s[i])

RECURSIVE BigInt(_)
BigInt(s) ==
  IF s = <<>> THEN 0
  ELSE 10 * BigInt(SubSeq(s, 1, Len(s) - 1)) + DigitValue(s[Len(s)])

\* BigInt.prototype.toString / BigNumber.toString: canonical decimal
RECURSIVE toString(_)
toString(n) ==
  IF n < 10 THEN <<Digits[n + 1]>>
  ELSE toString(n \div 10) \o <<Digits[(n % 10) + 1]>>

\* the value of an absent optional parameter
Undefined == <<"undefined">>

\* a || b
OrElse(a, b) == IF a = Undefined \/ a = <<>> THEN b ELSE a

\* ------------------------------------------------------------------------
\* Constants imported by simple-exchange.ts
\* ------------------------------------------------------------------------

CACHE_PREFIX == <<"d", "l">>

\* the native-asset placeholder address (mixed case), shortened
ETHER_ADDRESS == <<"0", "x", "E", "e">>

\* 2^256 - 1 as a decimal string
MAX_UINT ==
  <<"1","1","5","7","9","2","0","8","9","2","3","7","3","1","6","1","9","5",
    "4","2","3","5","7","0","9","8","5","0","0","8","6","8","7","9","0","7",
    "8","5","3","2","6","9","9","8","4","6","6","5","6","4","0","5","6","4",
    "0","3","9","4","5","7","5","8","4","0","0","7","9","1","3","1","2","9",
    "6","3","9","9","3","5">>

isETHAddress(address) == toLowerCase(address) = toLowerCase(ETHER_ADDRESS)

\* ------------------------------------------------------------------------
\* Addresses of the model
\* ------------------------------------------------------------------------

EthLower == <<"0", "x", "e", "e">>
DAI      == <<"0", "x", "D", "a">>
DaiLower == <<"0", "x", "d", "a">>
Router   == <<"0", "x", "B", "b">>
Spender  == <<"0", "x", "C", "c">>
RouterLower == <<"0", "x", "b", "b">>

Networks == {1, 56}

Augustus(network) == <<"0", "x", "A">> \o toString(network)

\* ------------------------------------------------------------------------
\* constructor
\* ------------------------------------------------------------------------

cacheApprovesKey_noNetwork(network, dexKey) ==
  toLowerCase(CACHE_PREFIX \o <<"_">> \o <<"a","p","p","r","o","v","e","s">>)

\* `${CACHE_PREFIX}_${this.network}_approves`.toLowerCase()
cacheApprovesKeyOf(network, dexKey) ==
  toLowerCase(CACHE_PREFIX \o <<"_">> \o toString(network) \o <<"_">>
              \o <<"a","p","p","r","o","v","e","s">>)

\* `${CACHE_PREFIX}_${this.network}_${this.dexKey}_states`.toLowerCase()
cacheStateKeyOf(network, dexKey) ==
  toLowerCase(CACHE_PREFIX \o <<"_">> \o toString(network) \o <<"_">>
              \o dexKey \o <<"_">> \o <<"s","t","a","t","e","s">>)

SimpleExchange(network, augustusAddress, dexKey) ==
  [ network          |-> network,
    augustusAddress  |-> augustusAddress,
    dexKey           |-> dexKey,
    cacheStateKey    |-> cacheStateKeyOf(network, dexKey),
    cacheApprovesKey |-> cacheApprovesKeyOf(network, dexKey) ]

\* the instances that exist after construction
Exchanges == {"x1", "x2", "x3"}

Uni == <<"U", "n", "i">>
Crv == <<"C", "r", "v">>

Exchange(x) ==
  CASE x = "x1" -> SimpleExchange(1, Augustus(1), Uni)
    [] x = "x2" -> SimpleExchange(1, Augustus(1), Crv)
    [] x = "x3" -> SimpleExchange(56, Augustus(56), Uni)

\* ------------------------------------------------------------------------
\* Pure parts of hasAugustusAllowance, getAllowance, getApproveSimpleParam
\* and buildSimpleParamWithoutWETHConversion
\* ------------------------------------------------------------------------

isNativeToken_caseSensitive(token) == token = ETHER_ADDRESS

\* token.toLowerCase() === ETHER_ADDRESS.toLowerCase()
isNativeToken(token) == toLowerCase(token) = toLowerCase(ETHER_ADDRESS)

\* `${token}_${target}`
cacheKeyOf(token, target) == token \o <<"_">> \o target

afterSismember_ignoreCache(isCachedApproved) == "getAllowance"

\* if (isCachedApproved) return true; otherwise the allowance is read
afterSismember(isCachedApproved) ==
  IF isCachedApproved THEN "return" ELSE "getAllowance"

\* comparing the decimal strings themselves, character by character
RECURSIVE StringGeq(_, _)
StringGeq(a, b) ==
  IF b = <<>> THEN TRUE
  ELSE IF a = <<>> THEN FALSE
  ELSE IF a[1] # b[1] THEN DigitValue(a[1]) > DigitValue(b[1])
  ELSE StringGeq(Tail(a), Tail(b))

\* any allowance other than zero taken as sufficient
isApproved_nonZero(allowanceStr, amount) == BigInt(allowanceStr) > 0

isApproved_stringCompare(allowanceStr, amount) == StringGeq(allowanceStr, amount)

\* BigInt(allowance) >= BigInt(amount)
isApproved(allowanceStr, amount) == BigInt(allowanceStr) >= BigInt(amount)

afterCompare_alwaysCache(approved) == "sadd"

\* if (isApproved) await this.cache.sadd(...); return isApproved
afterCompare(approved) == IF approved THEN "sadd" ELSE "return"

\* erc20Interface.encodeFunctionData / simpleSwapHelper.encodeFunctionData:
\* a call payload; ABI encoding keeps an address as its bytes, not its spelling
encodeFunctionData(fn, args) == [fn |-> fn, args |-> args]

EmptyParam == [callees |-> <<>>, calldata |-> <<>>, values |-> <<>>,
               networkFee |-> <<"0">>]

approveTail_neverApprove(augustusAddress, token, target, hasAllowance) ==
  EmptyParam

\* the approve step returned without its value
approveTail_noValue(augustusAddress, token, target, hasAllowance) ==
  IF hasAllowance
  THEN EmptyParam
  ELSE [ callees    |-> <<augustusAddress>>,
         calldata   |-> <<encodeFunctionData("approve",
                            <<toLowerCase(token), toLowerCase(target), MAX_UINT>>)>>,
         values     |-> <<>>,
         networkFee |-> <<"0">> ]

\* the approve step sent to the token contract itself
approveTail_toToken(augustusAddress, token, target, hasAllowance) ==
  IF hasAllowance
  THEN EmptyParam
  ELSE [ callees    |-> <<token>>,
         calldata   |-> <<encodeFunctionData("approve",
                            <<toLowerCase(token), toLowerCase(target), MAX_UINT>>)>>,
         values     |-> <<<<"0">>>>,
         networkFee |-> <<"0">> ]

\* getApproveSimpleParam once hasAugustusAllowance has returned hasAllowance
approveTail(augustusAddress, token, target, hasAllowance) ==
  IF hasAllowance
  THEN EmptyParam
  ELSE [ callees    |-> <<augustusAddress>>,
         calldata   |-> <<encodeFunctionData("approve",
                            <<toLowerCase(token), toLowerCase(target), MAX_UINT>>)>>,
         values     |-> <<<<"0">>>>,
         networkFee |-> <<"0">> ]

\* the swap target used whether or not a spender is given
effectiveSpender_alwaysCallee(spender, swapCallee) == swapCallee

\* spender || swapCallee
effectiveSpender(spender, swapCallee) == OrElse(spender, swapCallee)

\* networkFee: NumberAsString = '0'
feeOf(networkFee) == IF networkFee = Undefined THEN <<"0">> ELSE networkFee

swapValueThrows_lenient(src, srcAmount, networkFee) == FALSE

\* BigInt(networkFee) + (isETHAddress(src) ? BigInt(srcAmount) : 0n) throws
swapValueThrows(src, srcAmount, networkFee) ==
  \/ BigIntThrows(networkFee)
  \/ isETHAddress(src) /\ BigIntThrows(srcAmount)

swapValueOf_feeOnly(src, srcAmount, networkFee) == toString(BigInt(networkFee))

\* (BigInt(networkFee) + (isETHAddress(src) ? BigInt(srcAmount) : 0n)).toString()
swapValueOf(src, srcAmount, networkFee) ==
  toString(BigInt(networkFee) + (IF isETHAddress(src) THEN BigInt(srcAmount) ELSE 0))

\* preCalls?.callees || [], preCalls?.calldata || [], preCalls?.values || []
preList(preCalls, field) == IF preCalls.present THEN preCalls[field] ELSE <<>>

\* the values of the pre-calls overwritten with '0'
simpleParam_zeroPreValues(preCalls, approveParam, swapCallee, swapCallData, swapValue, networkFee) ==
  [ callees    |-> preList(preCalls, "callees") \o approveParam.callees \o <<swapCallee>>,
    calldata   |-> preList(preCalls, "calldata") \o approveParam.calldata \o <<swapCallData>>,
    values     |-> [i \in 1..Len(preList(preCalls, "values")) |-> <<"0">>]
                     \o approveParam.values \o <<swapValue>>,
    networkFee |-> networkFee ]

simpleParam_approveLast(preCalls, approveParam, swapCallee, swapCallData, swapValue, networkFee) ==
  [ callees    |-> preList(preCalls, "callees") \o <<swapCallee>> \o approveParam.callees,
    calldata   |-> preList(preCalls, "calldata") \o <<swapCallData>> \o approveParam.calldata,
    values     |-> preList(preCalls, "values") \o <<swapValue>> \o approveParam.values,
    networkFee |-> networkFee ]

\* the object returned by buildSimpleParamWithoutWETHConversion
simpleParam(preCalls, approveParam, swapCallee, swapCallData, swapValue, networkFee) ==
  [ callees    |-> preList(preCalls, "callees") \o approveParam.callees \o <<swapCallee>>,
    calldata   |-> preList(preCalls, "calldata") \o approveParam.calldata \o <<swapCallData>>,
    values     |-> preList(preCalls, "values") \o approveParam.values \o <<swapValue>>,
    networkFee |-> networkFee ]

\* ------------------------------------------------------------------------
\* State
\* ------------------------------------------------------------------------

VARIABLES
  allowance,  \* on chain: the owner's (Augustus) allowance per <<network, token, spender>>
  cache,      \* the injected cache service: the set of <<set key, member>> pairs
  pc,         \* per caller: where its build is suspended
  req,        \* per caller: the arguments of its build
  io,         \* per caller: the I/O operations its build has completed, in order
  oracle,     \* per caller: what hasAugustusAllowance returned ("none" until it returns)
  readVal,    \* per caller: the allowance string its own getAllowance returned
  result,     \* per caller: the SimpleExchangeParam the build resolved with
  err,        \* per caller: the error the build rejected with
  addedBy,    \* which instance's sadd added which <<set key, member>> pair
  approval,   \* per caller: the SimpleExchangeParam getApproveSimpleParam resolved with
  now,        \* the system clock, in milliseconds since the epoch
  deadlines,  \* the calls of getLocalDeadlineAsFriendlyPlaceholder: <<time, result>>, latest last
  last        \* the build that returned to its caller most recently

buildVars == <<allowance, cache, pc, req, io, oracle, readVal, result, err, addedBy,
               approval, last>>

clockVars == <<now, deadlines>>

vars == <<buildVars, clockVars>>

Callers == {"c1", "c2"}

\* the allowances an ERC20 can report in the model
AllowVals == {0, 50, 200}

\* the storage slot an allowance read or an external approval touches: the
\* chain identifies accounts by their bytes, whatever the spelling
Slot(network, token, spender) == <<network, toLowerCase(token), toLowerCase(spender)>>

Slots == { Slot(n, DAI, s) : n \in Networks, s \in {Router, Spender} }

SwapCallData == encodeFunctionData("swap", <<>>)

\* the i-th caller-supplied pre-call: the second and later ones carry value
PreCallee(i) == <<"0", "x", "F">> \o toString(i)
PreData(i)   == encodeFunctionData("pre", <<toString(i)>>)
PreValue(i)  == IF i = 1 THEN <<"0">> ELSE toString(7 * (i - 1))

NoPreCalls == [present |-> FALSE, callees |-> <<>>, calldata |-> <<>>, values |-> <<>>]

PreCallsOfLen(n) ==
  [ present  |-> TRUE,
    callees  |-> [i \in 1..n |-> PreCallee(i)],
    calldata |-> [i \in 1..n |-> PreData(i)],
    values   |-> [i \in 1..n |-> PreValue(i)] ]

PreCallChoices == {NoPreCalls} \cup { PreCallsOfLen(n) : n \in 0..MaxPreCalls }

Request(x, src, srcAmount, spender, networkFee, preCalls) ==
  [ x |-> x, src |-> src, srcAmount |-> srcAmount, swapCallData |-> SwapCallData,
    swapCallee |-> Router, spender |-> spender, networkFee |-> networkFee,
    preCalls |-> preCalls ]

NoReq == Request("x1", <<>>, <<>>, Undefined, Undefined, NoPreCalls)

NoResult == [callees |-> <<>>, calldata |-> <<>>, values |-> <<>>, networkFee |-> <<>>]

NoLast == [x |-> "x1", token |-> <<>>, target |-> <<>>, oracle |-> "none", reads |-> 0]

\* the requests of the sequential specification: one instance, native and
\* non-native sources, parseable and unparseable amounts and fees
Requests ==
  { Request("x1", src, amt, sp, fee, pre) :
      src \in {ETHER_ADDRESS, EthLower, DAI},
      amt \in {<<"1","0">>, <<"1","0","0">>, <<"1",".","5">>},
      sp  \in {Undefined, Spender},
      fee \in {Undefined, <<"5">>, <<"1",".","5">>},
      pre \in PreCallChoices }

MainSlots == { Slot(1, DAI, s) : s \in {Router, Spender} }

Init ==
  /\ allowance = [s \in Slots |-> 0]
  /\ cache = {}
  /\ pc = [c \in Callers |-> "idle"]
  /\ req = [c \in Callers |-> NoReq]
  /\ io = [c \in Callers |-> <<>>]
  /\ oracle = [c \in Callers |-> "none"]
  /\ readVal = [c \in Callers |-> <<>>]
  /\ result = [c \in Callers |-> NoResult]
  /\ err = [c \in Callers |-> "none"]
  /\ addedBy = {}
  /\ approval = [c \in Callers |-> NoResult]
  /\ now = 0
  /\ deadlines = <<>>
  /\ last = NoLast

\* ------------------------------------------------------------------------
\* The build, one action per stretch between two awaits
\* ------------------------------------------------------------------------

tokenOf(c)  == req[c].src
targetOf(c) == effectiveSpender(req[c].spender, req[c].swapCallee)
selfOf(c)   == Exchange(req[c].x)
memberOf(c) == <<selfOf(c).cacheApprovesKey, cacheKeyOf(tokenOf(c), targetOf(c))>>

\* hasAugustusAllowance resolves with hasAllowance; getApproveSimpleParam and
\* buildSimpleParamWithoutWETHConversion run to their end (lines 129-148, 167-184)
Resolves(c, r, hasAllowance) ==
  LET self   == Exchange(r.x)
      token  == r.src
      target == effectiveSpender(r.spender, r.swapCallee)
      fee    == feeOf(r.networkFee)
      approveParam == approveTail(self.augustusAddress, token, target, hasAllowance)
  IN /\ oracle' = [oracle EXCEPT ![c] = IF hasAllowance THEN "true" ELSE "false"]
     /\ approval' = [approval EXCEPT ![c] = approveParam]
     /\ IF swapValueThrows(token, r.srcAmount, fee)
        THEN /\ pc' = [pc EXCEPT ![c] = "failed"]
             /\ err' = [err EXCEPT ![c] = "SyntaxError"]
             /\ result' = [result EXCEPT ![c] = NoResult]
        ELSE /\ pc' = [pc EXCEPT ![c] = "done"]
             /\ err' = [err EXCEPT ![c] = "none"]
             /\ result' = [result EXCEPT ![c] =
                  simpleParam(r.preCalls, approveParam, r.swapCallee, r.swapCallData,
                              swapValueOf(token, r.srcAmount, fee), fee)]

\* an awaited operation rejects: nothing catches it, the build rejects with it
Rejects(c, error) ==
  /\ pc' = [pc EXCEPT ![c] = "failed"]
  /\ err' = [err EXCEPT ![c] = error]
  /\ UNCHANGED <<oracle, result, approval>>

Completed(c, op, outcome) == io' = [io EXCEPT ![c] = Append(@, <<op, outcome>>)]

\* the call of buildSimpleParamWithoutWETHConversion, up to the first await
\* that leaves the component: the native test (line 77) and cache.sismember
buildSimpleParamWithoutWETHConversion(c, r) ==
  /\ pc[c] = "idle"
  /\ req' = [req EXCEPT ![c] = r]
  /\ IF isNativeToken(r.src)
     THEN Resolves(c, r, TRUE)
     ELSE /\ pc' = [pc EXCEPT ![c] = "sismember"]
          /\ UNCHANGED <<oracle, result, err, approval>>
  /\ UNCHANGED <<allowance, cache, io, readVal, addedBy, last>>
  /\ UNCHANGED clockVars

\* cache.sismember answers (lines 81-86)
sismemberReturns(c) ==
  /\ pc[c] = "sismember"
  /\ LET isCachedApproved == memberOf(c) \in cache
     IN /\ Completed(c, "sismember", IF isCachedApproved THEN "hit" ELSE "miss")
        /\ IF afterSismember(isCachedApproved) = "return"
           THEN Resolves(c, req[c], TRUE)
           ELSE /\ pc' = [pc EXCEPT ![c] = "getAllowance"]
                /\ UNCHANGED <<oracle, result, err, approval>>
  /\ UNCHANGED <<allowance, cache, req, readVal, addedBy, last>>
  /\ UNCHANGED clockVars

\* cache.sismember fails
sismemberRejects(c) ==
  /\ pc[c] = "sismember"
  /\ Completed(c, "sismember", "fail")
  /\ Rejects(c, "TransportFailure")
  /\ UNCHANGED <<allowance, cache, req, readVal, addedBy, last>>
  /\ UNCHANGED clockVars

\* getAllowance: eth.call to the token, decoded, as a decimal string (100-121)
getAllowance(network, token, target) == toString(allowance[Slot(network, token, target)])

getAllowanceRejects_asZero(c) ==
  /\ pc[c] = "getAllowance"
  /\ Completed(c, "call", "fail")
  /\ readVal' = [readVal EXCEPT ![c] = <<"0">>]
  /\ Resolves(c, req[c], FALSE)
  /\ UNCHANGED <<allowance, cache, req, addedBy, last>>
  /\ UNCHANGED clockVars

\* the eth.call or the decoding of its result fails
getAllowanceRejects(c) ==
  /\ pc[c] = "getAllowance"
  /\ Completed(c, "call", "fail")
  /\ Rejects(c, "TransportFailure")
  /\ UNCHANGED <<allowance, cache, req, readVal, addedBy, last>>
  /\ UNCHANGED clockVars

\* the allowance arrives and is compared with the amount (lines 88-97)
getAllowanceReturns(c) ==
  /\ pc[c] = "getAllowance"
  /\ LET allowanceStr == getAllowance(selfOf(c).network, tokenOf(c), targetOf(c))
         amount == req[c].srcAmount
     IN /\ Completed(c, "call", "ok")
        /\ readVal' = [readVal EXCEPT ![c] = allowanceStr]
        /\ IF BigIntThrows(amount)
           THEN Rejects(c, "SyntaxError")
           ELSE IF afterCompare(isApproved(allowanceStr, amount)) = "sadd"
                THEN /\ pc' = [pc EXCEPT ![c] = "sadd"]
                     /\ UNCHANGED <<oracle, result, err, approval>>
                ELSE Resolves(c, req[c], isApproved(allowanceStr, amount))
  /\ UNCHANGED <<allowance, cache, req, addedBy, last>>
  /\ UNCHANGED clockVars

\* the set written anew on every sadd instead of added to
saddReturns_replace(c) ==
  /\ pc[c] = "sadd"
  /\ cache' = {memberOf(c)}
  /\ addedBy' = addedBy \cup {<<req[c].x, memberOf(c)>>}
  /\ Completed(c, "sadd", "ok")
  /\ Resolves(c, req[c], isApproved(readVal[c], req[c].srcAmount))
  /\ UNCHANGED <<allowance, req, readVal, last>>
  /\ UNCHANGED clockVars

\* the allowance kept where concurrent invocations share it: the latest read wins
saddReturns_sharedRead(c) ==
  /\ pc[c] = "sadd"
  /\ cache' = cache \cup {memberOf(c)}
  /\ addedBy' = addedBy \cup {<<req[c].x, memberOf(c)>>}
  /\ Completed(c, "sadd", "ok")
  /\ LET other == CHOOSE d \in Callers : d # c
         shared == IF readVal[other] # <<>> THEN readVal[other] ELSE readVal[c]
     IN Resolves(c, req[c], isApproved(shared, req[c].srcAmount))
  /\ UNCHANGED <<allowance, req, readVal, last>>
  /\ UNCHANGED clockVars

\* cache.sadd has added the pair (line 95), the oracle returns isApproved
saddReturns(c) ==
  /\ pc[c] = "sadd"
  /\ cache' = cache \cup {memberOf(c)}
  /\ addedBy' = addedBy \cup {<<req[c].x, memberOf(c)>>}
  /\ Completed(c, "sadd", "ok")
  /\ Resolves(c, req[c], isApproved(readVal[c], req[c].srcAmount))
  /\ UNCHANGED <<allowance, req, readVal, last>>
  /\ UNCHANGED clockVars

\* cache.sadd fails: the set is left as it was
saddRejects(c) ==
  /\ pc[c] = "sadd"
  /\ Completed(c, "sadd", "fail")
  /\ Rejects(c, "TransportFailure")
  /\ UNCHANGED <<allowance, cache, req, readVal, addedBy, last>>
  /\ UNCHANGED clockVars

Count(events, op) == Cardinality({i \in 1..Len(events) : events[i][1] = op})

\* the promise settles: the caller takes the sequence or the error
callerResumes(c) ==
  /\ pc[c] \in {"done", "failed"}
  /\ last' = [ x |-> req[c].x, token |-> tokenOf(c), target |-> targetOf(c),
               oracle |-> oracle[c], reads |-> Count(io[c], "call") ]
  /\ pc' = [pc EXCEPT ![c] = "idle"]
  /\ req' = [req EXCEPT ![c] = NoReq]
  /\ io' = [io EXCEPT ![c] = <<>>]
  /\ oracle' = [oracle EXCEPT ![c] = "none"]
  /\ readVal' = [readVal EXCEPT ![c] = <<>>]
  /\ result' = [result EXCEPT ![c] = NoResult]
  /\ err' = [err EXCEPT ![c] = "none"]
  /\ approval' = [approval EXCEPT ![c] = NoResult]
  /\ UNCHANGED <<allowance, cache, addedBy>>
  /\ UNCHANGED clockVars

\* anyone's transaction sets the owner's allowance (approve, revoke, spend)
externalAllowanceChange(slot, v) ==
  /\ allowance[slot] # v
  /\ allowance' = [allowance EXCEPT ![slot] = v]
  /\ UNCHANGED <<cache, pc, req, io, oracle, readVal, result, err, addedBy, approval, last>>
  /\ UNCHANGED clockVars

\* ------------------------------------------------------------------------
\* getLocalDeadlineAsFriendlyPlaceholder
\* ------------------------------------------------------------------------

\* 7 * 24 * 60 * 60 seconds
FRIENDLY_LOCAL_DEADLINE == 7 * 24 * 60 * 60

\* the week added to the clock's milliseconds, the division by 1000 left out
getLocalDeadlineAsFriendlyPlaceholder_milliseconds(t) ==
  toString(t + FRIENDLY_LOCAL_DEADLINE)

\* String(Math.floor(new Date().getTime() / 1000) + FRIENDLY_LOCAL_DEADLINE),
\* t being what new Date().getTime() returns
getLocalDeadlineAsFriendlyPlaceholder(t) ==
  toString((t \div 1000) + FRIENDLY_LOCAL_DEADLINE)

\* time passes: a quarter of a second, or a second
clockTicks(dt) ==
  /\ now + dt <= MaxClockMs
  /\ now' = now + dt
  /\ UNCHANGED deadlines
  /\ UNCHANGED buildVars

\* the system clock is set back: Date is not monotonic
clockSetBack(t) ==
  /\ t < now
  /\ now' = t
  /\ UNCHANGED deadlines
  /\ UNCHANGED buildVars

\* a call of getLocalDeadlineAsFriendlyPlaceholder; the last two are kept
deadlineCalled ==
  /\ deadlines' = (IF deadlines = <<>> THEN <<>> ELSE <<deadlines[Len(deadlines)]>>)
                     \o << <<now, getLocalDeadlineAsFriendlyPlaceholder(now)>> >>
  /\ UNCHANGED now
  /\ UNCHANGED buildVars

\* ------------------------------------------------------------------------
\* Specifications
\* ------------------------------------------------------------------------

\* one caller at a time: builds in sequence, the chain changing in between
Next ==
  \/ \E r \in Requests : buildSimpleParamWithoutWETHConversion("c1", r)
  \/ sismemberReturns("c1")
  \/ sismemberRejects("c1")
  \/ getAllowanceReturns("c1")
  \/ getAllowanceRejects("c1")
  \/ saddReturns("c1")
  \/ saddRejects("c1")
  \/ callerResumes("c1")
  \/ \E slot \in MainSlots, v \in AllowVals : externalAllowanceChange(slot, v)

Spec == Init /\ [][Next]_vars

\* every instance builds, for one token and the default spender, on both chains
ScopeRequests ==
  { Request(x, DAI, amt, Undefined, Undefined, NoPreCalls) :
      x \in Exchanges, amt \in {<<"1","0">>, <<"1","0","0">>} }

ScopeSlots == { Slot(n, DAI, Router) : n \in Networks }

NextScope ==
  \/ \E r \in ScopeRequests : buildSimpleParamWithoutWETHConversion("c1", r)
  \/ sismemberReturns("c1")
  \/ sismemberRejects("c1")
  \/ getAllowanceReturns("c1")
  \/ getAllowanceRejects("c1")
  \/ saddReturns("c1")
  \/ saddRejects("c1")
  \/ callerResumes("c1")
  \/ \E slot \in ScopeSlots, v \in AllowVals : externalAllowanceChange(slot, v)

SpecScope == Init /\ [][NextScope]_vars

\* one pair, its token and its spender each spelled in two letter cases
CaseRequests ==
  { Request("x1", src, amt, sp, Undefined, NoPreCalls) :
      src \in {DAI, DaiLower},
      amt \in {<<"1","0">>, <<"1","0","0">>},
      sp  \in {Undefined, RouterLower} }

CaseSlots == { Slot(1, DAI, Router) }

NextCase ==
  \/ \E r \in CaseRequests : buildSimpleParamWithoutWETHConversion("c1", r)
  \/ sismemberReturns("c1")
  \/ sismemberRejects("c1")
  \/ getAllowanceReturns("c1")
  \/ getAllowanceRejects("c1")
  \/ saddReturns("c1")
  \/ saddRejects("c1")
  \/ callerResumes("c1")
  \/ \E slot \in CaseSlots, v \in AllowVals : externalAllowanceChange(slot, v)

SpecCase == Init /\ [][NextCase]_vars

\* pre-calls whose three lists do not have one length: a value is missing
RaggedPreCalls ==
  [ present  |-> TRUE,
    callees  |-> <<PreCallee(1), PreCallee(2)>>,
    calldata |-> <<PreData(1), PreData(2)>>,
    values   |-> <<PreValue(1)>> ]

\* builds with aligned and with ragged pre-calls
AlignRequests ==
  { Request("x1", DAI, amt, Undefined, fee, pre) :
      amt \in {<<"1","0">>, <<"1","0","0">>},
      fee \in {Undefined, <<"5">>},
      pre \in PreCallChoices \cup {RaggedPreCalls} }

AlignSlots == { Slot(1, DAI, Router) }

NextAlign ==
  \/ \E r \in AlignRequests : buildSimpleParamWithoutWETHConversion("c1", r)
  \/ sismemberReturns("c1")
  \/ sismemberRejects("c1")
  \/ getAllowanceReturns("c1")
  \/ getAllowanceRejects("c1")
  \/ saddReturns("c1")
  \/ saddRejects("c1")
  \/ callerResumes("c1")
  \/ \E slot \in AlignSlots, v \in AllowVals : externalAllowanceChange(slot, v)

SpecAlign == Init /\ [][NextAlign]_vars

\* the clock and the calls of getLocalDeadlineAsFriendlyPlaceholder
NextDeadline ==
  \/ \E dt \in {250, 1000} : clockTicks(dt)
  \/ \E t \in {0, 1750} : clockSetBack(t)
  \/ deadlineCalled

SpecDeadline == Init /\ [][NextDeadline]_vars

\* two builds in flight at once, interleaved at their awaits, on two pairs
ConcRequests ==
  { Request("x1", DAI, amt, sp, Undefined, NoPreCalls) :
      amt \in {<<"1","0">>, <<"1","0","0">>},
      sp  \in {Undefined, Spender} }

NextConc ==
  \/ \E c \in Callers, r \in ConcRequests : buildSimpleParamWithoutWETHConversion(c, r)
  \/ \E c \in Callers : sismemberReturns(c)
  \/ \E c \in Callers : sismemberRejects(c)
  \/ \E c \in Callers : getAllowanceReturns(c)
  \/ \E c \in Callers : getAllowanceRejects(c)
  \/ \E c \in Callers : saddReturns(c)
  \/ \E c \in Callers : saddRejects(c)
  \/ \E c \in Callers : callerResumes(c)
  \/ \E slot \in MainSlots, v \in AllowVals : externalAllowanceChange(slot, v)

SpecConc == Init /\ [][NextConc]_vars

\* ------------------------------------------------------------------------
\* Vocabulary of the properties
\* ------------------------------------------------------------------------

NativeSource(c) == toLowerCase(req[c].src) = EthLower

AmountParses(c) == ~BigIntThrows(req[c].srcAmount)

FeeParses(c) == ~BigIntThrows(feeOf(req[c].networkFee))

\* the on-chain allowance of the pair the build of c is about, now
ChainAllowance(c) == allowance[Slot(selfOf(c).network, tokenOf(c), targetOf(c))]

\* the indices of the approve steps of a sequence
ApproveSteps(res) == {i \in 1..Len(res.calldata) : res.calldata[i].fn = "approve"}

\* step i of the sequence of c approves its own (token, effective spender)
ApprovesOwnPair(c, i) ==
  /\ result[c].callees[i] = selfOf(c).augustusAddress
  /\ result[c].calldata[i].args[1] = toLowerCase(tokenOf(c))
  /\ result[c].calldata[i].args[2] = toLowerCase(targetOf(c))

NumPreCalls(c) == Len(preList(req[c].preCalls, "callees"))

\* the I/O operations of the build of c that were issued: completed or pending
Issued(c, op, at) == Count(io[c], op) + (IF pc[c] = at THEN 1 ELSE 0)

LookupWas(c, outcome) == io[c] # <<>> /\ io[c][1] = <<"sismember", outcome>>

\* the last I/O operation of the build of c failed
FailedOperation(c) == io[c] # <<>> /\ io[c][Len(io[c])][2] = "fail"

SamePairAsLast(c) ==
  /\ last.x = req[c].x
  /\ last.token = tokenOf(c)
  /\ last.target = targetOf(c)

\* ------------------------------------------------------------------------
\* C1
\* ------------------------------------------------------------------------

\* C1 (as claimed): whenever a build for a non-native source returns its
\* sequence, either an approve step for (token, effective spender) precedes
\* the swap step or the on-chain allowance is at least srcAmount at that moment
\* (read in the claim's favour: the chain has not moved since the build's own
\* read, if it made one).
C1_ApprovalInPlaceAtReturn ==
  [][\A c \in Callers :
       (pc[c] # "done" /\ pc'[c] = "done" /\ ~NativeSource(c)' /\ AmountParses(c)'
          /\ (Count(io'[c], "call") = 1 => BigInt(readVal'[c]) = ChainAllowance(c)'))
       => \/ \E i \in ApproveSteps(result'[c]) :
               i < Len(result'[c].callees) /\ ApprovesOwnPair(c, i)'
          \/ ChainAllowance(c)' >= BigInt(req'[c].srcAmount)]_vars

\* C1 (amended): every sequence returned for a non-native source either has
\* an approve step for (token, effective spender) before the swap step, or was
\* built on a cache hit, or on this build's own on-chain read that showed
\* allowance >= srcAmount; on a cache hit nothing is known of the allowance now.
C1_ApprovalOrObservation ==
  \A c \in Callers :
    (pc[c] = "done" /\ ~NativeSource(c))
    => \/ \E i \in ApproveSteps(result[c]) :
            i < Len(result[c].callees) /\ ApprovesOwnPair(c, i)
       \/ io[c] = << <<"sismember", "hit">> >>
       \/ /\ Count(io[c], "call") = 1
          /\ AmountParses(c)
          /\ BigInt(readVal[c]) >= BigInt(req[c].srcAmount)

\* a sequence with its approve step, returned after a read that showed too little
C1_Witness ==
  \E c \in Callers :
    /\ pc[c] = "done" /\ ~NativeSource(c) /\ AmountParses(c)
    /\ LookupWas(c, "miss")
    /\ BigInt(readVal[c]) < BigInt(req[c].srcAmount)
    /\ \E i \in ApproveSteps(result[c]) : ApprovesOwnPair(c, i)

\* ------------------------------------------------------------------------
\* C2
\* ------------------------------------------------------------------------

\* C2: a call whose pair is in the approval cache when its lookup is answered
\* issues no on-chain read and does not return false; it returns true unless
\* the lookup itself fails, whatever the on-chain allowance is by then.
C2_MonotonicCache ==
  [][\A c \in Callers :
       (pc[c] = "sismember" /\ memberOf(c) \in cache /\ pc'[c] # "sismember")
       => /\ pc'[c] # "getAllowance"
          /\ Count(io'[c], "call") = 0
          /\ oracle'[c] # "false"
          /\ LookupWas(c, "hit")' => oracle'[c] = "true"
          /\ LookupWas(c, "hit")' \/ LookupWas(c, "fail")']_vars

\* a hit that returned true although the chain no longer holds the amount
C2_Witness ==
  \E c \in Callers :
    /\ pc[c] = "done" /\ oracle[c] = "true"
    /\ io[c] = << <<"sismember", "hit">> >>
    /\ AmountParses(c)
    /\ ChainAllowance(c) < BigInt(req[c].srcAmount)

\* ------------------------------------------------------------------------
\* C3
\* ------------------------------------------------------------------------

\* C3: after a cache miss exactly one on-chain read is issued; the oracle
\* returns true iff the allowance read >= amount, as integers; when it returns
\* true the pair is in the cache; and a call that follows a miss resolved to
\* true for the same pair issues no read, so the two make one read in total.
C3_OneReadOnMiss ==
  \A c \in Callers :
    /\ LookupWas(c, "miss") =>
         /\ Issued(c, "call", "getAllowance") = 1
         /\ oracle[c] # "none" =>
              /\ AmountParses(c)
              /\ (oracle[c] = "true") <=> (BigInt(readVal[c]) >= BigInt(req[c].srcAmount))
              /\ oracle[c] = "true" => memberOf(c) \in cache
    /\ (pc[c] # "idle" /\ ~NativeSource(c) /\ SamePairAsLast(c)
          /\ last.oracle = "true" /\ last.reads = 1)
       => last.reads + Issued(c, "call", "getAllowance") = 1

\* the second of two calls for a pair that resolved to sufficient, served from the cache
C3_Witness ==
  \E c \in Callers :
    /\ pc[c] = "done" /\ oracle[c] = "true" /\ LookupWas(c, "hit")
    /\ SamePairAsLast(c) /\ last.oracle = "true" /\ last.reads = 1

\* ------------------------------------------------------------------------
\* C4
\* ------------------------------------------------------------------------

\* C4: a miss whose read shows less than the amount returns false, writes
\* nothing to the cache and yields an approve step directly before the swap
\* step; the next call for the pair is again a miss with a read of its own, and
\* returns true with the pair cached only if that read shows enough.
C4_InsufficientNotCached ==
  \A c \in Callers :
    /\ (Count(io[c], "call") = 1 /\ io[c][2][2] = "ok" /\ AmountParses(c)
          /\ BigInt(readVal[c]) < BigInt(req[c].srcAmount))
       => /\ oracle[c] = "false"
          /\ Issued(c, "sadd", "sadd") = 0
          /\ memberOf(c) \notin cache
          /\ pc[c] = "done" =>
               LET n == Len(result[c].callees)
               IN /\ n >= 2
                  /\ ApproveSteps(result[c]) = {n - 1}
                  /\ ApprovesOwnPair(c, n - 1)
                  /\ result[c].calldata[n] = req[c].swapCallData
    /\ (pc[c] \notin {"idle", "sismember"} /\ ~NativeSource(c) /\ SamePairAsLast(c)
          /\ last.oracle = "false" /\ ~LookupWas(c, "fail"))
       => /\ LookupWas(c, "miss")
          /\ Issued(c, "call", "getAllowance") = 1
          /\ oracle[c] = "true" =>
               /\ BigInt(readVal[c]) >= BigInt(req[c].srcAmount)
               /\ memberOf(c) \in cache

\* the call after an insufficient one: a miss again, whose own read shows enough
C4_Witness ==
  \E c \in Callers :
    /\ pc[c] = "done" /\ oracle[c] = "true" /\ LookupWas(c, "miss")
    /\ SamePairAsLast(c) /\ last.oracle = "false" /\ last.reads = 1
    /\ memberOf(c) \in cache

\* ------------------------------------------------------------------------
\* C5
\* ------------------------------------------------------------------------

\* C5: in a returned sequence the swap step is last, the pre-calls come first
\* in the caller's order, and the approve step, when there is one, lies after
\* every pre-call and before the swap step.
C5_Ordering ==
  \A c \in Callers :
    pc[c] = "done" =>
      LET res == result[c]
          n   == Len(res.callees)
          k   == NumPreCalls(c)
      IN /\ n >= 1 /\ k < n
         /\ res.callees[n] = req[c].swapCallee
         /\ res.calldata[n] = req[c].swapCallData
         /\ \A j \in 1..k :
              /\ res.callees[j] = preList(req[c].preCalls, "callees")[j]
              /\ res.calldata[j] = preList(req[c].preCalls, "calldata")[j]
              /\ res.values[j] = preList(req[c].preCalls, "values")[j]
         /\ \A i \in ApproveSteps(res) : k < i /\ i < n

\* two pre-calls, then the approve step, then the swap step
C5_Witness ==
  \E c \in Callers :
    /\ pc[c] = "done" /\ NumPreCalls(c) = 2
    /\ ApproveSteps(result[c]) = {3}
    /\ Len(result[c].callees) = 4

\* ------------------------------------------------------------------------
\* C6
\* ------------------------------------------------------------------------

\* C6: the value of the swap step is srcAmount + networkFee for a native
\* source and networkFee alone otherwise (networkFee 0 when not given).
C6_ValueAccounting ==
  \A c \in Callers :
    pc[c] = "done" =>
      LET v == result[c].values[Len(result[c].values)]
          F == BigInt(feeOf(req[c].networkFee))
      IN /\ ~BigIntThrows(v)
         /\ FeeParses(c)
         /\ NativeSource(c) => AmountParses(c) /\ BigInt(v) = BigInt(req[c].srcAmount) + F
         /\ ~NativeSource(c) => BigInt(v) = F

\* a native source with amount 100 and fee 5: the swap step carries 105
C6_Witness ==
  \E c \in Callers :
    /\ pc[c] = "done" /\ NativeSource(c)
    /\ req[c].srcAmount = <<"1","0","0">> /\ req[c].networkFee = <<"5">>
    /\ result[c].values[Len(result[c].values)] = <<"1","0","5">>

\* ------------------------------------------------------------------------
\* C7
\* ------------------------------------------------------------------------

\* C7: a build whose source is the native asset, in any letter case, ends in
\* the step that starts it: the oracle has returned true with no lookup, read
\* or write, the cache is as it was, and the sequence has no approve step.
C7_NativeNeedsNoApproval ==
  [][\A c \in Callers :
       (pc[c] = "idle" /\ pc'[c] # "idle" /\ NativeSource(c)')
       => /\ pc'[c] \in {"done", "failed"}
          /\ oracle'[c] = "true"
          /\ io'[c] = <<>>
          /\ cache' = cache
          /\ pc'[c] = "done" =>
               /\ ApproveSteps(result'[c]) = {}
               /\ Len(result'[c].callees) = NumPreCalls(c)' + 1]_vars

\* a native source spelled in lower case, built with no I/O and no approve step
C7_Witness ==
  \E c \in Callers :
    /\ pc[c] = "done" /\ req[c].src = EthLower /\ req[c].src # ETHER_ADDRESS
    /\ io[c] = <<>> /\ oracle[c] = "true"
    /\ ApproveSteps(result[c]) = {}

\* ------------------------------------------------------------------------
\* C8
\* ------------------------------------------------------------------------

\* C8: when the on-chain read or a cache operation of a build fails, the
\* build rejects with that failure: the oracle has returned nothing, there is
\* no sequence, at most one read was attempted, nothing was added to the
\* cache by this build, and the build takes no further step but to settle.
C8_FailurePropagates ==
  [][\A c \in Callers :
       /\ FailedOperation(c)' =>
            /\ pc'[c] = "failed" /\ err'[c] = "TransportFailure"
            /\ oracle'[c] = "none"
            /\ result'[c] = NoResult
            /\ Count(io'[c], "call") <= 1
            /\ \A i \in 1..Len(io'[c]) : io'[c][i] # <<"sadd", "ok">>
       /\ (~FailedOperation(c) /\ FailedOperation(c)') => cache' = cache
       /\ FailedOperation(c) => (pc'[c] = "idle" /\ io'[c] = <<>>) \/ UNCHANGED <<pc, io>>]_vars

\* a build rejected because its allowance read failed
C8_Witness ==
  \E c \in Callers :
    /\ pc[c] = "failed" /\ err[c] = "TransportFailure"
    /\ io[c] = << <<"sismember", "miss">>, <<"call", "fail">> >>
    /\ result[c] = NoResult

\* ------------------------------------------------------------------------
\* C9
\* ------------------------------------------------------------------------

\* C9 (as claimed): a build whose srcAmount or networkFee does not parse has,
\* once it has settled, been rejected for that, and no cache lookup, on-chain
\* read or cache write was made for it (builds whose I/O failed aside).
C9_FailFast ==
  \A c \in Callers :
    (pc[c] \in {"done", "failed"} /\ ~FailedOperation(c)
       /\ (~AmountParses(c) \/ ~FeeParses(c)))
    => pc[c] = "failed" /\ err[c] = "SyntaxError" /\ io[c] = <<>>

\* C9 (amended): amounts are parsed where they are used, not up front.  A
\* build whose networkFee does not parse never returns a sequence, but is
\* rejected only after the allowance check, whose cache write stays.  A build
\* whose srcAmount does not parse never writes the cache; it is rejected
\* without I/O for a native source, after the lookup and the read on a cache
\* miss, and not at all on a cache hit.  Only such input is rejected this way.
C9_RejectedWhereParsed ==
  \A c \in Callers :
    pc[c] # "idle" =>
      /\ ~FeeParses(c) => pc[c] # "done"
      /\ ~AmountParses(c) =>
           /\ Issued(c, "sadd", "sadd") = 0
           /\ pc[c] = "done" => io[c] = << <<"sismember", "hit">> >>
           /\ pc[c] = "failed" /\ err[c] = "SyntaxError" =>
                \/ NativeSource(c) /\ io[c] = <<>>
                \/ io[c] = << <<"sismember", "hit">> >> /\ ~FeeParses(c)
                \/ io[c] = << <<"sismember", "miss">>, <<"call", "ok">> >>
      /\ (NativeSource(c) /\ (~AmountParses(c) \/ ~FeeParses(c))) =>
           pc[c] = "failed" /\ err[c] = "SyntaxError" /\ io[c] = <<>>
      /\ err[c] = "SyntaxError" =>
           pc[c] = "failed" /\ result[c] = NoResult /\ (~AmountParses(c) \/ ~FeeParses(c))

\* a build rejected for its networkFee after it has added its pair to the cache
C9_Witness ==
  \E c \in Callers :
    /\ pc[c] = "failed" /\ err[c] = "SyntaxError" /\ ~FeeParses(c)
    /\ io[c] = << <<"sismember", "miss">>, <<"call", "ok">>, <<"sadd", "ok">> >>
    /\ memberOf(c) \in cache

\* ------------------------------------------------------------------------
\* C10
\* ------------------------------------------------------------------------

\* the instances whose sadd added the pair the build of c looks up
AddersOfPair(c) == {x \in Exchanges : <<x, memberOf(c)>> \in addedBy}

CachedInSomeCase(c) ==
  \E m \in cache :
    /\ m[1] = selfOf(c).cacheApprovesKey
    /\ toLowerCase(m[2]) = toLowerCase(tokenOf(c)) \o <<"_">> \o toLowerCase(targetOf(c))

\* C11: approval keys are case-normalized: a lookup answered while the pair
\* is cached under addresses that are equal after lower-casing is a hit, and
\* no on-chain read follows it.
C11_KeysCaseNormalized ==
  [][\A c \in Callers :
       (pc[c] = "sismember" /\ pc'[c] # "sismember" /\ CachedInSomeCase(c)
          /\ ~LookupWas(c, "fail")')
       => LookupWas(c, "hit")' /\ pc'[c] # "getAllowance"]_vars

\* ------------------------------------------------------------------------
\* C12
\* ------------------------------------------------------------------------

\* the cache member of the build of c, spelled out from its arguments
PairKey(c) ==
  << selfOf(c).cacheApprovesKey,
     req[c].src \o <<"_">> \o
       (IF req[c].spender = Undefined THEN req[c].swapCallee ELSE req[c].spender) >>

\* C12: builds for the same pair are not mutually excluded, and it does no
\* harm: a cache write adds the writer's pair and changes no other entry, a
\* second write of a pair leaves the cache as the first left it, and every
\* caller is answered with the comparison of its own read with its own amount.
C12_RaceIsHarmless ==
  [][\A c \in Callers :
       /\ (pc[c] = "sadd" /\ pc'[c] # "sadd" /\ ~FailedOperation(c)') =>
            /\ cache' = cache \cup {PairKey(c)}
            /\ PairKey(c) \in cache => cache' = cache
       /\ (pc[c] # "sadd" \/ pc'[c] = "sadd" \/ FailedOperation(c)') =>
            (cache' # cache => \E d \in Callers : d # c /\ pc[d] = "sadd" /\ pc'[d] # "sadd")
       /\ (oracle'[c] # "none" /\ LookupWas(c, "miss")') =>
            /\ AmountParses(c)'
            /\ (oracle'[c] = "true")
                 <=> (BigInt(readVal'[c]) >= BigInt(req'[c].srcAmount))]_vars

\* both callers missed, both read, both wrote the same pair; the two reads
\* differ and each caller has the answer to its own
C12_Witness ==
  /\ \A c \in Callers :
       /\ pc[c] = "done"
       /\ io[c] = << <<"sismember", "miss">>, <<"call", "ok">>, <<"sadd", "ok">> >>
       /\ oracle[c] = "true"
  /\ PairKey("c1") = PairKey("c2")
  /\ readVal["c1"] # readVal["c2"]
  /\ Cardinality({m \in cache : m = PairKey("c1")}) = 1

\* ------------------------------------------------------------------------
\* C13
\* ------------------------------------------------------------------------

\* the spender the build of c hands to getApproveSimpleParam, from its arguments
SpenderOrCallee(c) == IF req[c].spender = Undefined THEN req[c].swapCallee ELSE req[c].spender

\* C13: getApproveSimpleParam returns the empty sub-sequence with fee '0' when
\* the oracle reports sufficient allowance, and otherwise exactly one step:
\* target augustusAddress, payload approve(token, spender, MAX_UINT) and not
\* the requested amount, value '0', fee '0'.
C13_ApproveParamShape ==
  \A c \in Callers :
    /\ oracle[c] = "none" => approval[c] = NoResult
    /\ oracle[c] = "true" =>
         /\ approval[c].callees = <<>> /\ approval[c].calldata = <<>>
         /\ approval[c].values = <<>>  /\ approval[c].networkFee = <<"0">>
    /\ oracle[c] = "false" =>
         /\ approval[c].callees = <<selfOf(c).augustusAddress>>
         /\ Len(approval[c].calldata) = 1
         /\ approval[c].calldata[1].fn = "approve"
         /\ approval[c].calldata[1].args =
              <<toLowerCase(req[c].src), toLowerCase(SpenderOrCallee(c)), MAX_UINT>>
         /\ approval[c].calldata[1].args[3] # req[c].srcAmount
         /\ approval[c].values = << <<"0">> >>
         /\ approval[c].networkFee = <<"0">>

\* an insufficient read: the one approve step for the (DAI, Spender) pair
C13_Witness ==
  \E c \in Callers :
    /\ oracle[c] = "false" /\ pc[c] = "done"
    /\ req[c].src = DAI /\ req[c].spender = Spender
    /\ approval[c].callees = <<Augustus(1)>>
    /\ approval[c].calldata[1].args[3] = MAX_UINT
    /\ req[c].srcAmount = <<"1","0","0">>

\* ------------------------------------------------------------------------
\* C14
\* ------------------------------------------------------------------------

\* the order in which one invocation of the oracle performs its I/O
OracleOrder == <<"sismember", "call", "sadd">>

\* the write of the build of c has been issued: pending or completed
WriteIssued(c) == Issued(c, "sadd", "sadd") >= 1

\* C14: within one invocation the lookup completes before the read is issued
\* and the read completes before any write; a write follows only a completed
\* read that showed allowance >= amount, never a hit, never a native source,
\* never an insufficient or failed read; at most one read and one write.
C14_OrderedEvents ==
  \A c \in Callers :
    /\ Len(io[c]) <= 3
    /\ \A i \in 1..Len(io[c]) : io[c][i][1] = OracleOrder[i]
    /\ pc[c] = "sismember" => io[c] = <<>>
    /\ pc[c] = "getAllowance" => io[c] = << <<"sismember", "miss">> >>
    /\ Issued(c, "call", "getAllowance") >= 1 => LookupWas(c, "miss")
    /\ WriteIssued(c) =>
         /\ LookupWas(c, "miss")
         /\ Len(io[c]) >= 2 /\ io[c][2] = <<"call", "ok">>
         /\ AmountParses(c)
         /\ BigInt(readVal[c]) >= BigInt(req[c].srcAmount)
         /\ ~NativeSource(c)
         /\ pc[c] = "sadd" => Len(io[c]) = 2
    /\ Issued(c, "call", "getAllowance") <= 1
    /\ Issued(c, "sadd", "sadd") <= 1
    /\ NativeSource(c) => io[c] = <<>>

\* a full invocation: miss, read of 200 for an amount of 100, write
C14_Witness ==
  \E c \in Callers :
    /\ pc[c] = "done"
    /\ io[c] = << <<"sismember", "miss">>, <<"call", "ok">>, <<"sadd", "ok">> >>
    /\ readVal[c] = <<"2","0","0">> /\ req[c].srcAmount = <<"1","0","0">>

\* ------------------------------------------------------------------------
\* C15
\* ------------------------------------------------------------------------

\* the build of c has completed an on-chain read for its pair that returned
\* at least the amount it asked for
SufficientReadBy(c) ==
  /\ Len(io[c]) >= 2 /\ io[c][2] = <<"call", "ok">>
  /\ AmountParses(c)
  /\ BigInt(readVal[c]) >= BigInt(req[c].srcAmount)

\* C15: every entry of the approval cache is justified by a past observation:
\* the cache starts empty and an entry enters it only in a step of an
\* invocation for that pair whose earlier on-chain read returned an allowance
\* >= the amount that invocation requested.
C15_EntriesJustified ==
  /\ cache = {}
  /\ [][\A m \in cache' \ cache :
          \E c \in Callers :
            /\ pc[c] = "sadd" /\ pc'[c] # "sadd"
            /\ m = PairKey(c)
            /\ SufficientReadBy(c)]_vars

\* an entry that only the past justifies: cached after a read of 200 for an
\* amount of 100, the allowance on chain is 0 by now
C15_Witness ==
  \E c \in Callers :
    /\ pc[c] = "done" /\ Count(io[c], "sadd") = 1
    /\ PairKey(c) \in cache
    /\ readVal[c] = <<"2","0","0">> /\ req[c].srcAmount = <<"1","0","0">>
    /\ ChainAllowance(c) = 0

\* ------------------------------------------------------------------------
\* C16
\* ------------------------------------------------------------------------

\* C16: the approval cache is append-only from this component: no step
\* removes an entry, and a change of the on-chain allowance, a lowering or a
\* revocation included, leaves the cache exactly as it was.
C16_AppendOnly ==
  [][/\ cache \subseteq cache'
     /\ allowance' # allowance => cache' = cache]_vars

\* both pairs cached, both allowances revoked since, a further build finished
C16_Witness ==
  /\ Cardinality(cache) = 2
  /\ \A slot \in MainSlots : allowance[slot] = 0
  /\ \E c \in Callers : pc[c] = "done" /\ LookupWas(c, "hit")

\* ------------------------------------------------------------------------
\* C17
\* ------------------------------------------------------------------------

\* C17 (as claimed): in every returned sequence the swap step is the only
\* step that carries native value: the approve step and every caller-supplied
\* pre-call have value zero.
C17_OnlySwapCarriesValue ==
  \A c \in Callers :
    pc[c] = "done" =>
      \A i \in 1..(Len(result[c].values) - 1) :
        /\ ~BigIntThrows(result[c].values[i])
        /\ BigInt(result[c].values[i]) = 0

\* C17 (amended): of the steps the component itself adds, only the swap step
\* can carry native value: the approve step has value '0'. The value of a
\* pre-call is the caller's, returned as given, zero or not, and is not part
\* of the swap step's value.
C17_OwnStepsCarryNoValue ==
  \A c \in Callers :
    pc[c] = "done" =>
      LET res == result[c]
          n   == Len(res.values)
          k   == NumPreCalls(c)
      IN /\ \A i \in ApproveSteps(res) : res.values[i] = <<"0">>
         /\ \A j \in 1..k : res.values[j] = req[c].preCalls.values[j]
         /\ \A i \in 1..(n - 1) : i \in 1..k \/ i \in ApproveSteps(res)
         /\ BigInt(res.values[n]) =
              BigInt(feeOf(req[c].networkFee))
                + (IF NativeSource(c) THEN BigInt(req[c].srcAmount) ELSE 0)

\* two pre-calls, the second with value 7, then the approve step with value 0
C17_Witness ==
  \E c \in Callers :
    /\ pc[c] = "done" /\ NumPreCalls(c) = 2
    /\ ApproveSteps(result[c]) = {3}
    /\ result[c].values[2] = <<"7">>
    /\ result[c].values[3] = <<"0">>

\* ------------------------------------------------------------------------
\* C18
\* ------------------------------------------------------------------------

\* the on-chain slot of the pair of c, from the request's arguments
SlotOfRequest(c) ==
  <<selfOf(c).network, toLowerCase(req[c].src), toLowerCase(SpenderOrCallee(c))>>

\* C18: the effective spender is the request's spender when one is given and
\* swapCallee otherwise; the cache lookup, the on-chain read, the cache write
\* and the approve payload of one build all use it, and the swap step's
\* target is swapCallee.
C18_OneEffectiveSpender ==
  [][\A c \in Callers :
       /\ (pc[c] = "sismember" /\ pc'[c] # "sismember" /\ ~LookupWas(c, "fail")') =>
            (LookupWas(c, "hit")' <=> PairKey(c) \in cache)
       /\ (pc[c] = "getAllowance" /\ Count(io'[c], "call") = 1 /\ ~FailedOperation(c)') =>
            readVal'[c] = toString(allowance[SlotOfRequest(c)])
       /\ (pc[c] = "sadd" /\ pc'[c] # "sadd" /\ ~FailedOperation(c)') =>
            cache' \ cache \subseteq {PairKey(c)} /\ PairKey(c) \in cache'
       /\ pc'[c] = "done" =>
            LET res == result'[c]
                n   == Len(res.callees)
            IN /\ res.callees[n] = req'[c].swapCallee
               /\ \A i \in ApproveSteps(res) :
                    res.calldata[i].args[2] =
                      toLowerCase(IF req'[c].spender = Undefined
                                  THEN req'[c].swapCallee ELSE req'[c].spender)]_vars

\* a spender other than the swap target: its slot holds 50 while the swap
\* target's holds 200; the read saw 50, the approve step names the spender and
\* the swap step goes to swapCallee
C18_Witness ==
  \E c \in Callers :
    /\ pc[c] = "done" /\ req[c].spender = Spender /\ req[c].swapCallee = Router
    /\ req[c].src = DAI
    /\ allowance[Slot(1, DAI, Spender)] = 50 /\ allowance[Slot(1, DAI, Router)] = 200
    /\ readVal[c] = <<"5","0">>
    /\ ApproveSteps(result[c]) # {}
    /\ \A i \in ApproveSteps(result[c]) : result[c].calldata[i].args[2] = toLowerCase(Spender)
    /\ result[c].callees[Len(result[c].callees)] = Router

\* ------------------------------------------------------------------------
\* C19
\* ------------------------------------------------------------------------

\* the three lists of the pre-calls of c have one length
AlignedPreCalls(c) ==
  /\ Len(preList(req[c].preCalls, "callees")) = Len(preList(req[c].preCalls, "calldata"))
  /\ Len(preList(req[c].preCalls, "calldata")) = Len(preList(req[c].preCalls, "values"))

\* C19: the returned parallel lists stay aligned: when the pre-calls' callees,
\* calldata and values have one length n (0 without pre-calls), the result's
\* callees, calldata and values all have length n + a + 1, a being 1 when the
\* oracle answered false and 0 otherwise, and index i of the three lists
\* describes one step: pre-call i, the approve step, or the swap step.
C19_ListsAligned ==
  \A c \in Callers :
    (pc[c] = "done" /\ AlignedPreCalls(c)) =>
      LET res == result[c]
          n   == Len(preList(req[c].preCalls, "values"))
          a   == IF oracle[c] = "false" THEN 1 ELSE 0
          pre == req[c].preCalls
      IN /\ Len(res.callees) = n + a + 1
         /\ Len(res.calldata) = n + a + 1
         /\ Len(res.values) = n + a + 1
         /\ \A i \in 1..n :
              /\ res.callees[i] = pre.callees[i]
              /\ res.calldata[i] = pre.calldata[i]
              /\ res.values[i] = pre.values[i]
         /\ a = 1 =>
              /\ res.callees[n + 1] = selfOf(c).augustusAddress
              /\ res.calldata[n + 1].fn = "approve"
              /\ res.values[n + 1] = <<"0">>
         /\ res.callees[n + a + 1] = req[c].swapCallee
         /\ res.calldata[n + a + 1] = req[c].swapCallData
         /\ BigInt(res.values[n + a + 1]) = BigInt(feeOf(req[c].networkFee))

\* two aligned pre-calls and an approve step: three lists of length 4
C19_Witness ==
  \E c \in Callers :
    /\ pc[c] = "done" /\ AlignedPreCalls(c) /\ oracle[c] = "false"
    /\ Len(preList(req[c].preCalls, "values")) = 2
    /\ Len(result[c].callees) = 4 /\ Len(result[c].calldata) = 4
    /\ Len(result[c].values) = 4

\* ------------------------------------------------------------------------
\* C20
\* ------------------------------------------------------------------------

\* C20: getLocalDeadlineAsFriendlyPlaceholder returns, as a decimal string,
\* the whole seconds of the time of the call plus exactly 604800; every call
\* computes it anew, so of two calls at t1 <= t2 the later result is not the
\* smaller, and each result, taken as seconds, is strictly later than the
\* time of its own call.
C20_DeadlineAWeekAhead ==
  /\ \A i \in 1..Len(deadlines) :
       LET t == deadlines[i][1]
           d == deadlines[i][2]
       IN /\ ~BigIntThrows(d)
          /\ toString(BigInt(d)) = d
          /\ \E secs \in 0..(MaxClockMs \div 1000 + 1) :
               /\ secs * 1000 <= t /\ t < (secs + 1) * 1000
               /\ BigInt(d) = secs + 604800
          /\ BigInt(d) * 1000 > t
  /\ (Len(deadlines) = 2 /\ deadlines[1][1] <= deadlines[2][1]) =>
       BigInt(deadlines[1][2]) <= BigInt(deadlines[2][2])

\* two calls 1250 ms apart, neither on a whole second: 604800 and 604802
C20_Witness ==
  /\ Len(deadlines) = 2
  /\ deadlines[1] = <<750, <<"6","0","4","8","0","0">> >>
  /\ deadlines[2] = <<2000, <<"6","0","4","8","0","2">> >>

====
